---- MODULE Spec2Model ----
(***************************************************************************)
(* WeatherServer: the forecast resolution path.                            *)
(*                                                                         *)
(*   WeatherServiceImpl::get_weather      src/weather_service_impl.rs      *)
(*   WeatherForecaster::get_weather       src/forecast/mod.rs              *)
(*   AvailableService (Display, FromStr)  src/forecast/available_services.rs *)
(*   openweathermap::Integration,                                          *)
(*   weatherapi::Integration              src/forecast/forecast_services/  *)
(*                                                                         *)
(* Text that the code inspects character by character (date strings, URLs) *)
(* is a sequence of one-character strings.  Text that the code only        *)
(* concatenates and hands on (error descriptions, condition strings) is a  *)
(* sequence of pieces; concatenation is \o.  Provider names are compared   *)
(* as whole strings and are TLA+ strings.                                  *)
(***************************************************************************)
EXTENDS Integers, Sequences, FiniteSets, TLC

VARIABLES
    config,          \* defs::CONFIG: the credentials read by the adapters
    params,          \* per call: how it was entered and its arguments
    pc,              \* per call: position of the call
    provider,        \* per call: WeatherForecaster.provider
    requested_date,  \* per call: requested_date of get_weather
    url,             \* per call: url_string of get_weather
    response,        \* per call: outcome of send().await
    steps,           \* per call: the operations performed so far, in order
    result,          \* per call: Result<WeatherForecast, Error> of the forecaster
    reply,           \* per call: Result<Response<WeatherForecast>, Status> of the service
    listed           \* the replies of get_weather_providers so far, in order

vars == <<config, params, pc, provider, requested_date, url, response, steps,
          result, reply, listed>>

----------------------------------------------------------------------------
(* Bounds *)

\* Longest upstream day list considered.
MaxDays == 2

\* Number of call slots; Spec runs its call in slot 1.
MaxCalls == 2

Calls == 1..MaxCalls

\* Number of get_weather_providers calls considered.
MaxLists == 2

----------------------------------------------------------------------------
(* Text helpers *)

IsDigit(c) == c \in {"0", "1", "2", "3", "4", "5", "6", "7", "8", "9"}

Digit(c) ==
    CASE c = "0" -> 0 [] c = "1" -> 1 [] c = "2" -> 2 [] c = "3" -> 3
      [] c = "4" -> 4 [] c = "5" -> 5 [] c = "6" -> 6 [] c = "7" -> 7
      [] c = "8" -> 8 [] c = "9" -> 9

Drop(s, n) == SubSeq(s, n + 1, Len(s))

StartsWith(s, p) == Len(s) >= Len(p) /\ SubSeq(s, 1, Len(p)) = p

\* Number of leading ASCII digits of s, at most max.
RECURSIVE LeadingDigits(_, _)
LeadingDigits(s, max) ==
    IF max = 0 \/ s = <<>> \/ ~IsDigit(Head(s)) THEN 0
    ELSE 1 + LeadingDigits(Tail(s), max - 1)

\* Decimal value of the first n characters of s (all digits).
RECURSIVE DigitsValue(_, _)
DigitsValue(s, n) ==
    IF n = 0 THEN 0 ELSE DigitsValue(s, n - 1) * 10 + Digit(s[n])

----------------------------------------------------------------------------
(* chrono::NaiveDate::parse_from_str(&date_string, "%m.%d.%Y")             *)
(* A NaiveDate is represented by its day number (days since 1970-01-01);   *)
(* two NaiveDates are equal exactly when their day numbers are.            *)

\* scan::number(s, min, max): between min and max leading digits.
ScanNumber(s, min, max) ==
    LET n == LeadingDigits(s, max) IN
    IF n < min THEN [ok |-> FALSE, v |-> 0, rest |-> s]
    ELSE [ok |-> TRUE, v |-> DigitsValue(s, n), rest |-> Drop(s, n)]

\* %m and %d: an unsigned number of one or two digits.
ScanUnsigned2(s) == ScanNumber(s, 1, 2)

\* %Y: four digits at most without a sign, any number of digits after + or -.
ScanYear(s) ==
    IF StartsWith(s, <<"-">>) THEN
        LET r == ScanNumber(Tail(s), 1, Len(s)) IN [r EXCEPT !.v = 0 - r.v]
    ELSE IF StartsWith(s, <<"+">>) THEN ScanNumber(Tail(s), 1, Len(s))
    ELSE ScanNumber(s, 1, 4)

\* A literal of the format string.
ScanLiteral(s, lit) ==
    IF StartsWith(s, lit) THEN [ok |-> TRUE, rest |-> Drop(s, Len(lit))]
    ELSE [ok |-> FALSE, rest |-> s]

IsLeapYear(y) == (y % 4 = 0 /\ y % 100 # 0) \/ y % 400 = 0

DaysInMonth(y, m) ==
    IF m = 2 THEN (IF IsLeapYear(y) THEN 29 ELSE 28)
    ELSE IF m \in {4, 6, 9, 11} THEN 30 ELSE 31

\* NaiveDate::from_ymd_opt: the date exists in the proleptic Gregorian calendar.
ValidYmd(y, m, d) ==
    /\ y >= -262144 /\ y <= 262143
    /\ m >= 1 /\ m <= 12
    /\ d >= 1 /\ d <= DaysInMonth(y, m)

\* Day number of a civil date (days since 1970-01-01).
DaysFromCivil(y, m, d) ==
    LET yy  == IF m <= 2 THEN y - 1 ELSE y
        era == yy \div 400
        yoe == yy - era * 400
        mp  == (m + 9) % 12
        doy == (153 * mp + 2) \div 5 + d - 1
        doe == yoe * 365 + yoe \div 4 - yoe \div 100 + doy
    IN era * 146097 + doe - 719468

NoDate == [ok |-> FALSE, date |-> 0]

\* parse_from_str with the format "%d.%m.%Y": the day is read first.
ParseFromStr_DayFirst(s) ==
    LET dd == ScanUnsigned2(s) IN
    IF ~dd.ok THEN NoDate ELSE
    LET l1 == ScanLiteral(dd.rest, <<".">>) IN
    IF ~l1.ok THEN NoDate ELSE
    LET mo == ScanUnsigned2(l1.rest) IN
    IF ~mo.ok THEN NoDate ELSE
    LET l2 == ScanLiteral(mo.rest, <<".">>) IN
    IF ~l2.ok THEN NoDate ELSE
    LET yr == ScanYear(l2.rest) IN
    IF ~yr.ok THEN NoDate ELSE
    IF yr.rest # <<>> THEN NoDate ELSE
    IF ~ValidYmd(yr.v, mo.v, dd.v) THEN NoDate
    ELSE [ok |-> TRUE, date |-> DaysFromCivil(yr.v, mo.v, dd.v)]


ParseFromStr(s) ==
    LET mo == ScanUnsigned2(s) IN
    IF ~mo.ok THEN NoDate ELSE
    LET l1 == ScanLiteral(mo.rest, <<".">>) IN
    IF ~l1.ok THEN NoDate ELSE
    LET dd == ScanUnsigned2(l1.rest) IN
    IF ~dd.ok THEN NoDate ELSE
    LET l2 == ScanLiteral(dd.rest, <<".">>) IN
    IF ~l2.ok THEN NoDate ELSE
    LET yr == ScanYear(l2.rest) IN
    IF ~yr.ok THEN NoDate ELSE
    IF yr.rest # <<>> THEN NoDate ELSE
    IF ~ValidYmd(yr.v, mo.v, dd.v) THEN NoDate
    ELSE [ok |-> TRUE, date |-> DaysFromCivil(yr.v, mo.v, dd.v)]

----------------------------------------------------------------------------
(* AvailableService: the provider registry *)

OpenWeatherMap == "AvailableService::OpenWeatherMap"
WeatherApi == "AvailableService::WeatherApi"

\* The static array with its two entries in the other order.
SERVICES_Reversed == <<WeatherApi, OpenWeatherMap>>

\* AvailableService::iter(): the static array SERVICES.
SERVICES == <<OpenWeatherMap, WeatherApi>>

\* Display with the two names exchanged.
Display_Swapped(service) ==
    CASE service = OpenWeatherMap -> "WeatherApi"
      [] service = WeatherApi -> "OpenWeatherMap"

\* impl Display for AvailableService
Display(service) ==
    CASE service = OpenWeatherMap -> "OpenWeatherMap"
      [] service = WeatherApi -> "WeatherApi"

\* from_str with the letter case of the input ignored.
from_str_CaseInsensitive(input) ==
    CASE input \in {"OpenWeatherMap", "openweathermap"} ->
             [ok |-> TRUE, service |-> OpenWeatherMap]
      [] input \in {"WeatherApi", "weatherapi"} -> [ok |-> TRUE, service |-> WeatherApi]
      [] OTHER -> [ok |-> FALSE, service |-> ""]

\* impl FromStr for AvailableService
from_str(input) ==
    CASE input = "OpenWeatherMap" -> [ok |-> TRUE, service |-> OpenWeatherMap]
      [] input = "WeatherApi" -> [ok |-> TRUE, service |-> WeatherApi]
      [] OTHER -> [ok |-> FALSE, service |-> ""]

----------------------------------------------------------------------------
(* Box<dyn ForecastEndService>: the two integrations, and the stub of the  *)
(* forecaster's tests, which WeatherForecaster { provider: stub } installs. *)

NoProvider == [kind |-> "none", url |-> <<>>, ok |-> FALSE]
OpenWeatherMapIntegration == [kind |-> "openweathermap", url |-> <<>>, ok |-> TRUE]
WeatherApiIntegration == [kind |-> "weatherapi", url |-> <<>>, ok |-> TRUE]
StubForecastEndpoint(u, is_ok) == [kind |-> "stub", url |-> u, ok |-> is_ok]

get_forecast_integration(forecast_type) ==
    CASE forecast_type = OpenWeatherMap -> OpenWeatherMapIntegration
      [] forecast_type = WeatherApi -> WeatherApiIntegration

----------------------------------------------------------------------------
(* Location and the Display of its f32 coordinates.  A coordinate is held  *)
(* in tenths (22 is 2.2); name, state and country are never read by the    *)
(* forecast path and are left out.                                         *)

NoLocation == [some |-> FALSE, lat |-> 0, lon |-> 0]
SomeLocation(la, lo) == [some |-> TRUE, lat |-> la, lon |-> lo]

DigitChar(d) ==
    CASE d = 0 -> "0" [] d = 1 -> "1" [] d = 2 -> "2" [] d = 3 -> "3"
      [] d = 4 -> "4" [] d = 5 -> "5" [] d = 6 -> "6" [] d = 7 -> "7"
      [] d = 8 -> "8" [] d = 9 -> "9"

RECURSIVE NatChars(_)
NatChars(n) ==
    IF n < 10 THEN <<DigitChar(n)>>
    ELSE NatChars(n \div 10) \o <<DigitChar(n % 10)>>

\* format!("{}", x) of an f32 with at most one decimal: 2.2 is "2.2", 240.0 is "240".
FmtF32(t) ==
    LET a == IF t < 0 THEN 0 - t ELSE t
        whole == NatChars(a \div 10)
        frac == IF a % 10 = 0 THEN <<>> ELSE <<".", DigitChar(a % 10)>>
    IN (IF t < 0 THEN <<"-">> ELSE <<>>) \o whole \o frac

----------------------------------------------------------------------------
(* ForecastEndService::get_url *)

OwmUrlHead ==
    <<"h", "t", "t", "p", "s", ":", "/", "/", "a", "p", "i", ".", "o", "p", "e",
      "n", "w", "e", "a", "t", "h", "e", "r", "m", "a", "p", ".", "o", "r", "g",
      "/", "d", "a", "t", "a", "/", "2", ".", "5", "/", "o", "n", "e", "c", "a",
      "l", "l", "?", "l", "a", "t", "=">>
OwmExcludes ==
    <<"c", "u", "r", "r", "e", "n", "t", ",", "m", "i", "n", "u", "t", "e", "l",
      "y", ",", "h", "o", "u", "r", "l", "y">>
OwmUnits == <<"m", "e", "t", "r", "i", "c">>

openweathermap_get_url(loc, cfg) ==
    OwmUrlHead \o FmtF32(loc.lat)
        \o <<"&", "l", "o", "n", "=">> \o FmtF32(loc.lon)
        \o <<"&", "u", "n", "i", "t", "s", "=">> \o OwmUnits
        \o <<"&", "e", "x", "c", "l", "u", "d", "e", "=">> \o OwmExcludes
        \o <<"&", "a", "p", "p", "i", "d", "=">> \o cfg.OPENWEATHERMAP_AUTHORIZATION

WapiUrlHead ==
    <<"h", "t", "t", "p", ":", "/", "/", "a", "p", "i", ".", "w", "e", "a", "t",
      "h", "e", "r", "a", "p", "i", ".", "c", "o", "m", "/", "v", "1", "/", "f",
      "o", "r", "e", "c", "a", "s", "t", ".", "j", "s", "o", "n", "?", "k", "e",
      "y", "=">>
WapiUrlTail ==
    <<"&", "d", "a", "y", "s", "=", "1", "0", "&", "a", "q", "i", "=", "n", "o",
      "&", "a", "l", "e", "r", "t", "s", "=", "n", "o">>

weatherapi_get_url(loc, cfg) ==
    WapiUrlHead \o cfg.WEATHER_API_AUTHORIZATION
        \o <<"&", "q", "=">> \o FmtF32(loc.lat) \o <<",">> \o FmtF32(loc.lon)
        \o WapiUrlTail

\* self.provider.get_url(loc), dispatched on the implementation.
get_url(p, loc, cfg) ==
    CASE p.kind = "openweathermap" -> openweathermap_get_url(loc, cfg)
      [] p.kind = "weatherapi" -> weatherapi_get_url(loc, cfg)
      [] p.kind = "stub" -> p.url

----------------------------------------------------------------------------
(* reqwest::Url::parse: a scheme, and for http(s) a non-empty host free of *)
(* forbidden characters with an optional port of at most 65535.  Path and  *)
(* query never make the parse fail.                                        *)

Alpha ==
    {"a", "b", "c", "d", "e", "f", "g", "h", "i", "j", "k", "l", "m",
     "n", "o", "p", "q", "r", "s", "t", "u", "v", "w", "x", "y", "z",
     "A", "B", "C", "D", "E", "F", "G", "H", "I", "J", "K", "L", "M",
     "N", "O", "P", "Q", "R", "S", "T", "U", "V", "W", "X", "Y", "Z"}

SchemeChars ==
    Alpha \cup {"0", "1", "2", "3", "4", "5", "6", "7", "8", "9", "+", "-", "."}

Slashes == {"/", "\\"}
AuthorityEnd == {"/", "\\", "?", "#"}
ForbiddenHostChars ==
    {" ", "#", "%", "/", ":", "<", ">", "?", "@", "[", "\\", "]", "^", "|"}

\* Length of the longest prefix of s made of characters of S.
RECURSIVE SpanIn(_, _)
SpanIn(s, S) ==
    IF s = <<>> \/ Head(s) \notin S THEN 0 ELSE 1 + SpanIn(Tail(s), S)

\* Length of the longest prefix of s with no character of S.
RECURSIVE SpanOut(_, _)
SpanOut(s, S) ==
    IF s = <<>> \/ Head(s) \in S THEN 0 ELSE 1 + SpanOut(Tail(s), S)

UrlParse(s) ==
    IF s = <<>> \/ Head(s) \notin Alpha THEN FALSE ELSE
    LET n == SpanIn(s, SchemeChars) IN
    IF n = Len(s) \/ s[n + 1] # ":" THEN FALSE ELSE
    LET scheme == SubSeq(s, 1, n)
        afterColon == Drop(s, n + 1)
    IN
    IF scheme \notin {<<"h", "t", "t", "p">>, <<"h", "t", "t", "p", "s">>}
    THEN TRUE ELSE
    LET rest == Drop(afterColon, SpanIn(afterColon, Slashes))
        authority == SubSeq(rest, 1, SpanOut(rest, AuthorityEnd))
        host == SubSeq(authority, 1, SpanOut(authority, {":"}))
        port == Drop(authority, Len(host) + 1)
    IN
    /\ host # <<>>
    /\ SpanOut(host, ForbiddenHostChars) = Len(host)
    /\ LeadingDigits(port, Len(port)) = Len(port)
    /\ Len(port) <= 5
    /\ DigitsValue(port, Len(port)) <= 65535

----------------------------------------------------------------------------
(* forecast::Error and the results of a call *)

Internal == "ErrorCode::Internal"
InvalidArgument == "ErrorCode::InvalidArgument"

Error(code, description) == [code |-> code, description |-> description]
NoError == Error("", <<>>)

\* i64 timestamps: v is the value; wide marks a value of magnitude beyond
\* chrono's NaiveDateTime range (about 8.2 * 10^12 s), for which v is not read.
Secs(n) == [wide |-> FALSE, v |-> n]
WideSecs == [wide |-> TRUE, v |-> 0]

\* weather_service_rpc::WeatherForecast; temperatures in tenths of a degree.
WeatherForecast(dt, min_t, max_t, avg_t, condition) ==
    [dt |-> dt, min_t |-> min_t, max_t |-> max_t, avg_t |-> avg_t,
     condition |-> condition]
NoForecast == WeatherForecast(Secs(0), 0, 0, 0, <<>>)

Pending == [kind |-> "pending", error |-> NoError, forecast |-> NoForecast]
Ok(weather) == [kind |-> "ok", error |-> NoError, forecast |-> weather]
Err(e) == [kind |-> "err", error |-> e, forecast |-> NoForecast]
Panic == [kind |-> "panic", error |-> NoError, forecast |-> NoForecast]

make_invalid_date_error ==
    Error(InvalidArgument,
          <<"Can't find forecast for specified data.",
            "Make sure that you use the format mm.dd.yyyy and do not specify a past date.">>)

\* impl Display for Error
DisplayError(e) ==
    <<"An error occured when performing forecast request: ">>
        \o e.description \o <<".">>

----------------------------------------------------------------------------
(* An upstream reply body as serde_json reads it.  A body is               *)
(*   [read, text, json]: whether its bytes can be read off the connection, *)
(* its characters (as pieces), and the JSON value those characters denote  *)
(* (JInvalid when they are not JSON).                                      *)

JInt(n) == [k |-> "int", wide |-> FALSE, v |-> n]
JWideInt == [k |-> "int", wide |-> TRUE, v |-> 0]
JFloat(tenths) == [k |-> "float", v |-> tenths]
JStr(str) == [k |-> "str", v |-> str]
JArr(seq) == [k |-> "arr", v |-> seq]
JObj(fields) == [k |-> "obj", v |-> fields]
JInvalid == [k |-> "invalid"]

HasField(j, f) == j.k = "obj" /\ f \in DOMAIN j.v

\* Deserialize for i64: a JSON integer.
IsI64(j) == j.k = "int"
AsI64(j) == [wide |-> j.wide, v |-> j.v]

\* Deserialize for f32: any JSON number.
IsF32(j) == j.k \in {"int", "float"}
AsF32(j) == IF j.k = "int" THEN j.v * 10 ELSE j.v

\* Deserialize for String.
IsString(j) == j.k = "str"

\* openweathermap::Temp
IsOwmTemp(j) ==
    /\ HasField(j, "min") /\ IsF32(j.v.min)
    /\ HasField(j, "max") /\ IsF32(j.v.max)
    /\ HasField(j, "day") /\ IsF32(j.v.day)

\* openweathermap::Condition
IsOwmCondition(j) ==
    /\ HasField(j, "main") /\ IsString(j.v.main)
    /\ HasField(j, "description") /\ IsString(j.v.description)

\* openweathermap::Forecast
IsOwmForecast(j) ==
    /\ HasField(j, "dt") /\ IsI64(j.v.dt)
    /\ HasField(j, "temp") /\ IsOwmTemp(j.v.temp)
    /\ HasField(j, "weather") /\ j.v.weather.k = "arr"
    /\ \A i \in 1..Len(j.v.weather.v) : IsOwmCondition(j.v.weather.v[i])

\* openweathermap::JSONReply
IsOwmJSONReply(j) ==
    /\ HasField(j, "daily") /\ j.v.daily.k = "arr"
    /\ \A i \in 1..Len(j.v.daily.v) : IsOwmForecast(j.v.daily.v[i])

\* weatherapi::Condition
IsWapiCondition(j) == HasField(j, "text") /\ IsString(j.v.text)

\* weatherapi::WeatherData
IsWapiWeatherData(j) ==
    /\ HasField(j, "maxtemp_c") /\ IsF32(j.v.maxtemp_c)
    /\ HasField(j, "mintemp_c") /\ IsF32(j.v.mintemp_c)
    /\ HasField(j, "avgtemp_c") /\ IsF32(j.v.avgtemp_c)
    /\ HasField(j, "condition") /\ IsWapiCondition(j.v.condition)

\* weatherapi::DailyForecast
IsWapiDailyForecast(j) ==
    /\ HasField(j, "date_epoch") /\ IsI64(j.v.date_epoch)
    /\ HasField(j, "day") /\ IsWapiWeatherData(j.v.day)

\* weatherapi::JSONReply with its ForecastDay
IsWapiJSONReply(j) ==
    /\ HasField(j, "forecast")
    /\ HasField(j.v.forecast, "forecastday") /\ j.v.forecast.v.forecastday.k = "arr"
    /\ \A i \in 1..Len(j.v.forecast.v.forecastday.v) :
           IsWapiDailyForecast(j.v.forecast.v.forecastday.v[i])

----------------------------------------------------------------------------
(* ForecastEndService::handle_response                                     *)
(* The outcome is [kind, forecasts, error] with kind "ok", "err" or        *)
(* "panic".                                                                *)

Handled(forecasts) == [kind |-> "ok", forecasts |-> forecasts, error |-> NoError]
HandleErr(e) == [kind |-> "err", forecasts |-> <<>>, error |-> e]
HandlePanic == [kind |-> "panic", forecasts |-> <<>>, error |-> NoError]

\* Display of the reqwest::Error of response.json().
JsonErrorText(body) ==
    IF ~body.read THEN "request or response body error"
    ELSE "error decoding response body"

\* The closure of the map in openweathermap's handle_response.
OwmItem(item) ==
    WeatherForecast(AsI64(item.v.dt), AsF32(item.v.temp.v.min),
                    AsF32(item.v.temp.v.max), AsF32(item.v.temp.v.day),
                    <<item.v.weather.v[1].v.main.v, ", ",
                      item.v.weather.v[1].v.description.v>>)

openweathermap_handle_response(body) ==
    IF ~body.read \/ ~IsOwmJSONReply(body.json) THEN
        HandleErr(Error(Internal,
            <<"Unable to process the response from OpenWeatherMap. ",
              JsonErrorText(body)>>))
    ELSE LET daily == body.json.v.daily.v IN
        \* item.weather[0] on an empty vector: index out of bounds
        IF \E i \in 1..Len(daily) : Len(daily[i].v.weather.v) = 0 THEN HandlePanic
        ELSE Handled([i \in 1..Len(daily) |-> OwmItem(daily[i])])

\* The closure of the map in weatherapi's handle_response.
WapiItem(item) ==
    WeatherForecast(AsI64(item.v.date_epoch), AsF32(item.v.day.v.mintemp_c),
                    AsF32(item.v.day.v.maxtemp_c), AsF32(item.v.day.v.avgtemp_c),
                    <<item.v.day.v.condition.v.text.v>>)

weatherapi_handle_response(body) ==
    IF ~body.read \/ ~IsWapiJSONReply(body.json) THEN
        HandleErr(Error(Internal,
            <<"Unable to process the response from WeatherApi. ",
              JsonErrorText(body)>>))
    ELSE LET days == body.json.v.forecast.v.forecastday.v IN
        Handled([i \in 1..Len(days) |-> WapiItem(days[i])])

\* The stub of the forecaster's tests: the response is not read.
StubForecasts ==
    <<WeatherForecast(Secs(946684800), 195, 205, 200, <<"Warm and cool">>),
      WeatherForecast(Secs(946771200), 215, 225, 220, <<"Warm and cool too">>)>>

stub_handle_response(p) ==
    IF p.ok THEN Handled(StubForecasts)
    ELSE HandleErr(Error(Internal, <<"An error in stub.">>))

\* self.provider.handle_response(response), dispatched on the implementation.
handle_response(p, body) ==
    CASE p.kind = "openweathermap" -> openweathermap_handle_response(body)
      [] p.kind = "weatherapi" -> weatherapi_handle_response(body)
      [] p.kind = "stub" -> stub_handle_response(p)

----------------------------------------------------------------------------
(* The HTTP exchange: what send().await yields *)

OK == 200
BAD_REQUEST == 400

NoBody == [read |-> FALSE, text |-> <<>>, json |-> JInvalid]
NoResponse == [kind |-> "none", err |-> "", status |-> 0, body |-> NoBody]
TransportError(text) == [kind |-> "error", err |-> text, status |-> 0, body |-> NoBody]
Reply(status, body) == [kind |-> "reply", err |-> "", status |-> status, body |-> body]

----------------------------------------------------------------------------
(* WeatherForecaster::get_weather *)

\* chrono::NaiveDateTime::from_timestamp(dt, 0).date(), as a day number.
DateOfTimestamp(secs) == secs \div 86400

\* forecasts.iter().position(|item| from_timestamp(item.dt, 0).date() == requested_date)
\* from_timestamp panics on a timestamp outside NaiveDateTime's range.
RECURSIVE Position(_, _, _)
Position(forecasts, requested, i) ==
    IF i > Len(forecasts) THEN [kind |-> "none", index |-> 0]
    ELSE IF forecasts[i].dt.wide THEN [kind |-> "panic", index |-> 0]
    ELSE IF DateOfTimestamp(forecasts[i].dt.v) = requested
         THEN [kind |-> "some", index |-> i]
    ELSE Position(forecasts, requested, i + 1)

\* get_weather with the URL built and parsed before the date text is parsed.
GetWeatherBegin_UrlFirst(p, loc, date_string, cfg) ==
    LET url_string == get_url(p, loc, cfg)
        requested == ParseFromStr(date_string)
    IN
    IF ~UrlParse(url_string) THEN
        [pc |-> "Panicked", requested_date |-> NoDate, url |-> url_string,
         steps |-> <<"get_url", "Url::parse">>, result |-> Panic]
    ELSE IF ~requested.ok THEN
        [pc |-> "Rejected", requested_date |-> NoDate, url |-> url_string,
         steps |-> <<"get_url", "Url::parse", "parse_from_str">>,
         result |-> Err(make_invalid_date_error)]
    ELSE
        [pc |-> "RequestSent", requested_date |-> requested, url |-> url_string,
         steps |-> <<"get_url", "Url::parse", "parse_from_str", "send">>,
         result |-> Pending]

\* get_weather with a URL that does not parse returned as an Internal error.
GetWeatherBegin_UrlError(p, loc, date_string, cfg) ==
    LET requested == ParseFromStr(date_string) IN
    IF ~requested.ok THEN
        [pc |-> "Rejected", requested_date |-> NoDate, url |-> <<>>,
         steps |-> <<"parse_from_str">>,
         result |-> Err(make_invalid_date_error)]
    ELSE LET url_string == get_url(p, loc, cfg) IN
    IF ~UrlParse(url_string) THEN
        [pc |-> "Failed", requested_date |-> requested, url |-> url_string,
         steps |-> <<"parse_from_str", "get_url", "Url::parse">>,
         result |-> Err(Error(Internal, <<"There was a problem parsing the url">>))]
    ELSE
        [pc |-> "RequestSent", requested_date |-> requested, url |-> url_string,
         steps |-> <<"parse_from_str", "get_url", "Url::parse", "send">>,
         result |-> Pending]

\* Lines 71-79: from the entry of get_weather to send().await.
GetWeatherBegin(p, loc, date_string, cfg) ==
    LET requested == ParseFromStr(date_string) IN
    IF ~requested.ok THEN
        [pc |-> "Rejected", requested_date |-> NoDate, url |-> <<>>,
         steps |-> <<"parse_from_str">>,
         result |-> Err(make_invalid_date_error)]
    ELSE LET url_string == get_url(p, loc, cfg) IN
    IF ~UrlParse(url_string) THEN
        [pc |-> "Panicked", requested_date |-> requested, url |-> url_string,
         steps |-> <<"parse_from_str", "get_url", "Url::parse">>,
         result |-> Panic]
    ELSE
        [pc |-> "RequestSent", requested_date |-> requested, url |-> url_string,
         steps |-> <<"parse_from_str", "get_url", "Url::parse", "send">>,
         result |-> Pending]

\* Lines 87-100: the StatusCode::OK arm.
OkArm(p, requested, body) ==
    LET handled == handle_response(p, body) IN
    IF handled.kind = "panic" THEN
        [pc |-> "Panicked", steps |-> <<"handle_response">>, result |-> Panic]
    ELSE IF handled.kind = "err" THEN
        [pc |-> IF handled.error.code = InvalidArgument THEN "Rejected" ELSE "Failed",
         steps |-> <<"handle_response">>, result |-> Err(handled.error)]
    ELSE LET found == Position(handled.forecasts, requested.date, 1) IN
    IF found.kind = "panic" THEN
        [pc |-> "Panicked", steps |-> <<"handle_response", "position">>,
         result |-> Panic]
    ELSE IF found.kind = "some" THEN
        [pc |-> "Done", steps |-> <<"handle_response", "position", "remove">>,
         result |-> Ok(handled.forecasts[found.index])]
    ELSE
        [pc |-> "Rejected", steps |-> <<"handle_response", "position">>,
         result |-> Err(make_invalid_date_error)]

\* response.text().await.unwrap(): panics when the body cannot be read.
TextArm(code, body) ==
    IF ~body.read THEN
        [pc |-> "Panicked", steps |-> <<"text">>, result |-> Panic]
    ELSE
        [pc |-> IF code = InvalidArgument THEN "Rejected" ELSE "Failed",
         steps |-> <<"text">>, result |-> Err(Error(code, body.text))]

\* get_weather with a transport failure reported as the caller's fault.
GetWeatherResume_TransportInvalid(p, requested, resp) ==
    IF resp.kind = "error" THEN
        [pc |-> "Rejected", steps |-> <<>>,
         result |-> Err(Error(InvalidArgument, <<"Unable to make request. ", resp.err>>))]
    ELSE IF resp.status = OK THEN OkArm(p, requested, resp.body)
    ELSE IF resp.status = BAD_REQUEST THEN TextArm(InvalidArgument, resp.body)
    ELSE TextArm(Internal, resp.body)

\* get_weather with the request issued again after a transport failure.
GetWeatherResume_Retry(p, requested, resp) ==
    IF resp.kind = "error" THEN
        [pc |-> "RequestSent", steps |-> <<"send">>, result |-> Pending]
    ELSE IF resp.status = OK THEN OkArm(p, requested, resp.body)
    ELSE IF resp.status = BAD_REQUEST THEN TextArm(InvalidArgument, resp.body)
    ELSE TextArm(Internal, resp.body)

\* Lines 79-113: from the completion of send().await to the return.
GetWeatherResume(p, requested, resp) ==
    IF resp.kind = "error" THEN
        [pc |-> "Failed", steps |-> <<>>,
         result |-> Err(Error(Internal, <<"Unable to make request. ", resp.err>>))]
    ELSE IF resp.status = OK THEN OkArm(p, requested, resp.body)
    ELSE IF resp.status = BAD_REQUEST THEN TextArm(InvalidArgument, resp.body)
    ELSE TextArm(Internal, resp.body)

----------------------------------------------------------------------------
(* WeatherServiceImpl::get_weather *)

NoReply == [kind |-> "pending", code |-> "", message |-> <<>>, forecast |-> NoForecast]
Response(weather) == [kind |-> "ok", code |-> "", message |-> <<>>, forecast |-> weather]
Status(code, message) ==
    [kind |-> "status", code |-> code, message |-> message, forecast |-> NoForecast]
ReplyPanic == [kind |-> "panic", code |-> "", message |-> <<>>, forecast |-> NoForecast]

\* Lines 20-26 of weather_service_impl.rs: WeatherProviders.providers, the
\* services of AvailableService::iter() rendered in order.
get_weather_providers == [i \in 1..Len(SERVICES) |-> Display(SERVICES[i])]

\* The match on err.code with every core error reported as a server error.
StatusCode_AllInternal(code) == "Code::Internal"

\* Lines 56-59: the match on err.code.
StatusCode(code) ==
    CASE code = Internal -> "Code::Internal"
      [] code = InvalidArgument -> "Code::InvalidArgument"

\* Lines 53-61: the match on the forecaster's result.
ToReply(res) ==
    CASE res.kind = "ok" -> Response(res.forecast)
      [] res.kind = "err" -> Status(StatusCode(res.error.code), DisplayError(res.error))
      [] res.kind = "panic" -> ReplyPanic
      [] res.kind = "pending" -> NoReply

\* The handler with the date text parsed before the provider name is resolved.
RpcBegin_DateFirst(prm, cfg) ==
    LET service == from_str(prm.provider) IN
    IF ~ParseFromStr(prm.date).ok THEN
        [pc |-> "Rejected", provider |-> NoProvider, requested_date |-> NoDate,
         url |-> <<>>, steps |-> <<"parse_from_str">>,
         result |-> Err(make_invalid_date_error),
         reply |-> ToReply(Err(make_invalid_date_error))]
    ELSE IF ~service.ok THEN
        [pc |-> "Rejected", provider |-> NoProvider, requested_date |-> NoDate,
         url |-> <<>>, steps |-> <<"parse_from_str", "from_str">>, result |-> Pending,
         reply |-> Status("Code::InvalidArgument", <<"Invalid weather provider passed.">>)]
    ELSE LET p == get_forecast_integration(service.service) IN
    IF ~prm.location.some THEN
        [pc |-> "Panicked", provider |-> p, requested_date |-> NoDate,
         url |-> <<>>,
         steps |-> <<"parse_from_str", "from_str", "WeatherForecaster::new", "unwrap">>,
         result |-> Pending, reply |-> ReplyPanic]
    ELSE LET b == GetWeatherBegin(p, prm.location, prm.date, cfg) IN
        [pc |-> b.pc, provider |-> p, requested_date |-> b.requested_date,
         url |-> b.url,
         steps |-> <<"from_str", "WeatherForecaster::new", "unwrap">> \o b.steps,
         result |-> b.result, reply |-> ToReply(b.result)]

\* Lines 44-53: from the entry of the handler to the forecaster's send().await.
RpcBegin(prm, cfg) ==
    LET service == from_str(prm.provider) IN
    IF ~service.ok THEN
        [pc |-> "Rejected", provider |-> NoProvider, requested_date |-> NoDate,
         url |-> <<>>, steps |-> <<"from_str">>, result |-> Pending,
         reply |-> Status("Code::InvalidArgument", <<"Invalid weather provider passed.">>)]
    ELSE LET p == get_forecast_integration(service.service) IN
    IF ~prm.location.some THEN
        \* params.location.unwrap() on None
        [pc |-> "Panicked", provider |-> p, requested_date |-> NoDate,
         url |-> <<>>, steps |-> <<"from_str", "WeatherForecaster::new", "unwrap">>,
         result |-> Pending, reply |-> ReplyPanic]
    ELSE LET b == GetWeatherBegin(p, prm.location, prm.date, cfg) IN
        [pc |-> b.pc, provider |-> p, requested_date |-> b.requested_date,
         url |-> b.url,
         steps |-> <<"from_str", "WeatherForecaster::new", "unwrap">> \o b.steps,
         result |-> b.result, reply |-> ToReply(b.result)]

----------------------------------------------------------------------------
(* The inputs a call is given and the replies the upstream can send *)

ProviderNames == {"OpenWeatherMap", "WeatherApi", "openweathermap", "Weather", ""}

\* None, lat 2.2 lon 1.1, and the impossible lat 240 lon 240 of the tests.
Locations == {NoLocation, SomeLocation(22, 11), SomeLocation(2400, 2400)}

DateTexts ==
    { <<"0", "1", ".", "0", "1", ".", "2", "0", "0", "0">>,   \* 1 Jan 2000
      <<"0", "1", ".", "0", "2", ".", "2", "0", "0", "0">>,   \* 2 Jan 2000
      <<"1", "2", ".", "3", "1", ".", "1", "9", "6", "9">>,   \* 31 Dec 1969
      <<"0", "1", ".", "0", "1", ".", "1", "9", "9", "9">>,   \* 1 Jan 1999
      <<"1", ".", "1", ".", "2", "0", "0", "0">>,             \* not zero-padded
      <<"2", "0", "0", "0", ".", "0", "1", ".", "0", "1">>,   \* year first
      <<"3", "1", ".", "0", "1", ".", "2", "0", "0", "0">>,   \* day first
      <<"1", "3", ".", "1", "2", ".", "2", "0", "0", "0">>,   \* day first
      <<"0", "2", ".", "3", "0", ".", "2", "0", "0", "0">>,   \* 30 Feb
      <<"0", "1", "-", "0", "1", "-", "2", "0", "0", "0">>,   \* wrong separator
      <<>> }

MockUrl ==
    <<"h", "t", "t", "p", ":", "/", "/", "1", "2", "7", ".", "0", ".", "0", ".",
      "1", ":", "5", "0", "0", "0", "/", "f", "o", "r", "e", "c", "a", "s", "t">>
NotAnUrl ==
    <<"t", "h", "i", "s", " ", "i", "s", " ", "n", "o", "t", " ", "a", "n", " ",
      "u", "r", "l">>

NoHostUrl == <<"h", "t", "t", "p", ":", "/", "/">>

\* The providers a forecaster is built with: the two integrations and the stubs.
Providers ==
    {OpenWeatherMapIntegration, WeatherApiIntegration,
     StubForecastEndpoint(MockUrl, TRUE), StubForecastEndpoint(MockUrl, FALSE),
     StubForecastEndpoint(NotAnUrl, TRUE), StubForecastEndpoint(NoHostUrl, TRUE)}

Configs ==
    {[OPENWEATHERMAP_AUTHORIZATION |-> <<"k", "1">>,
      WEATHER_API_AUTHORIZATION |-> <<"k", "2">>]}

\* One upstream day: a timestamp, three temperatures (tenths) and a condition.
Day(name, dt, lo, hi, avg, main, description) ==
    [name |-> name, dt |-> dt, min |-> lo, max |-> hi, day |-> avg,
     main |-> main, description |-> description]

Days ==
    { Day("jan1", Secs(946684800), 195, 205, 200, "Sky is clear", "warm and good"),
      Day("jan1-late", Secs(946771199), 185, 190, 187, "Rain", "light rain"),
      Day("jan2", Secs(946771200), 225, 235, 230, "Sky is clear", "warm and good too"),
      Day("dec31-1969", Secs(-1), -20, 10, -5, "Snow", "light snow"),
      Day("wide", WideSecs, 0, 0, 0, "Clouds", "overcast") }

\* All lists of at most n days.
RECURSIVE DayLists(_)
DayLists(n) ==
    IF n = 0 THEN {<<>>}
    ELSE LET shorter == DayLists(n - 1) IN
         shorter \cup {Append(l, d) : l \in {x \in shorter : Len(x) = n - 1}, d \in Days}

JSecs(dt) == IF dt.wide THEN JWideInt ELSE JInt(dt.v)

\* The day as OpenWeatherMap sends it, with the given weather array.
OwmDayWith(d, weather) ==
    JObj([dt |-> JSecs(d.dt),
          temp |-> JObj([day |-> JFloat(d.day), min |-> JFloat(d.min),
                         max |-> JFloat(d.max)]),
          weather |-> JArr(weather)])
OwmWeather(d) == JObj([main |-> JStr(d.main), description |-> JStr(d.description)])
OwmDay(d) == OwmDayWith(d, <<OwmWeather(d)>>)

\* The day as WeatherApi sends it.
WapiDay(d) ==
    JObj([date_epoch |-> JSecs(d.dt),
          day |-> JObj([maxtemp_c |-> JFloat(d.max), mintemp_c |-> JFloat(d.min),
                        avgtemp_c |-> JFloat(d.day),
                        condition |-> JObj([text |-> JStr(d.main)])])])

Names(l) == [i \in 1..Len(l) |-> l[i].name]

OwmBody(l) ==
    [read |-> TRUE, text |-> <<"{daily:[">> \o Names(l) \o <<"]}">>,
     json |-> JObj([daily |-> JArr([i \in 1..Len(l) |-> OwmDay(l[i])])])]

WapiBody(l) ==
    [read |-> TRUE, text |-> <<"{forecast:{forecastday:[">> \o Names(l) \o <<"]}}">>,
     json |-> JObj([forecast |->
                 JObj([forecastday |-> JArr([i \in 1..Len(l) |-> WapiDay(l[i])])])])]

Jan1 == CHOOSE d \in Days : d.name = "jan1"
Jan2 == CHOOSE d \in Days : d.name = "jan2"

\* Bodies that are not a well-formed day list of either provider.
OddBodies ==
    << \* the connection breaks while the body is read
       [read |-> FALSE, text |-> <<>>, json |-> JInvalid],
       \* not JSON
       [read |-> TRUE, text |-> <<"Internal Server Error">>, json |-> JInvalid],
       [read |-> TRUE, text |-> <<>>, json |-> JInvalid],
       \* JSON of another shape: the upstream's own error object
       [read |-> TRUE, text |-> <<"{cod:400,message:wrong latitude}">>,
        json |-> JObj([cod |-> JStr("400"), message |-> JStr("wrong latitude")])],
       \* OpenWeatherMap: a day whose weather array is empty
       [read |-> TRUE, text |-> <<"{daily:[jan1 weather:[]]}">>,
        json |-> JObj([daily |-> JArr(<<OwmDayWith(Jan1, <<>>)>>)])],
       \* OpenWeatherMap: the requested day, then a day whose weather array is empty
       [read |-> TRUE, text |-> <<"{daily:[jan1,jan2 weather:[]]}">>,
        json |-> JObj([daily |-> JArr(<<OwmDay(Jan1), OwmDayWith(Jan2, <<>>)>>)])],
       \* OpenWeatherMap: two conditions, the first is used
       [read |-> TRUE, text |-> <<"{daily:[jan1 weather:[jan1,jan2]]}">>,
        json |-> JObj([daily |->
                    JArr(<<OwmDayWith(Jan1, <<OwmWeather(Jan1), OwmWeather(Jan2)>>)>>)])],
       \* OpenWeatherMap: a day without temp
       [read |-> TRUE, text |-> <<"{daily:[jan1 without temp]}">>,
        json |-> JObj([daily |->
                    JArr(<<JObj([dt |-> JInt(946684800),
                                 weather |-> JArr(<<OwmWeather(Jan1)>>)])>>)])],
       \* OpenWeatherMap: dt is a string
       [read |-> TRUE, text |-> <<"{daily:[jan1 dt:string]}">>,
        json |-> JObj([daily |->
                    JArr(<<JObj([dt |-> JStr("946684800"),
                                 temp |-> JObj([day |-> JFloat(200), min |-> JFloat(195),
                                                max |-> JFloat(205)]),
                                 weather |-> JArr(<<OwmWeather(Jan1)>>)])>>)])],
       \* OpenWeatherMap: a weather element without description
       [read |-> TRUE, text |-> <<"{daily:[jan1 weather:[{main}]]}">>,
        json |-> JObj([daily |->
                    JArr(<<OwmDayWith(Jan1, <<JObj([main |-> JStr("Rain")])>>)>>)])],
       \* WeatherApi: forecastday is not an array
       [read |-> TRUE, text |-> <<"{forecast:{forecastday:none}}">>,
        json |-> JObj([forecast |-> JObj([forecastday |-> JStr("none")])])],
       \* WeatherApi: a day without condition
       [read |-> TRUE, text |-> <<"{forecast:{forecastday:[jan1 without condition]}}">>,
        json |-> JObj([forecast |-> JObj([forecastday |->
                    JArr(<<JObj([date_epoch |-> JInt(946684800),
                                 day |-> JObj([maxtemp_c |-> JFloat(205),
                                               mintemp_c |-> JFloat(195),
                                               avgtemp_c |-> JInt(20)])])>>)])])] >>

\* Every body the upstream may send, as a function of what is chosen.
Statuses == {OK, BAD_REQUEST, 401, 404, 500}
TransportErrors == {"error sending request: connection refused", "operation timed out"}

----------------------------------------------------------------------------
(* The state machine *)

Idle == [entry |-> "idle", provider |-> "", stub |-> NoProvider,
         location |-> NoLocation, date |-> <<>>]
RpcCall(name, loc, date) ==
    [entry |-> "rpc", provider |-> name, stub |-> NoProvider,
     location |-> loc, date |-> date]
DirectCall(p, loc, date) ==
    [entry |-> "direct", provider |-> "", stub |-> p, location |-> loc, date |-> date]

Init ==
    /\ config \in Configs
    /\ params = [c \in Calls |-> Idle]
    /\ pc = [c \in Calls |-> "Start"]
    /\ provider = [c \in Calls |-> NoProvider]
    /\ requested_date = [c \in Calls |-> NoDate]
    /\ url = [c \in Calls |-> <<>>]
    /\ response = [c \in Calls |-> NoResponse]
    /\ steps = [c \in Calls |-> <<>>]
    /\ result = [c \in Calls |-> Pending]
    /\ reply = [c \in Calls |-> NoReply]
    /\ listed = <<>>

\* The GetForecast request prm is handled up to its first suspension or its end.
Handle(c, prm) ==
    LET b == RpcBegin(prm, config)
    IN /\ pc[c] = "Start"
       /\ params' = [params EXCEPT ![c] = prm]
       /\ pc' = [pc EXCEPT ![c] = b.pc]
       /\ provider' = [provider EXCEPT ![c] = b.provider]
       /\ requested_date' = [requested_date EXCEPT ![c] = b.requested_date]
       /\ url' = [url EXCEPT ![c] = b.url]
       /\ steps' = [steps EXCEPT ![c] = b.steps]
       /\ result' = [result EXCEPT ![c] = b.result]
       /\ reply' = [reply EXCEPT ![c] = b.reply]
       /\ UNCHANGED <<config, response, listed>>

\* A GetForecast request arrives and runs to its first suspension or its end.
Rpc_get_weather(c) ==
    \E name \in ProviderNames, loc \in Locations, date \in DateTexts :
        Handle(c, RpcCall(name, loc, date))

\* get_weather is called on a forecaster built around any provider, as the
\* forecaster's tests do.
Forecaster_get_weather(c) ==
    /\ pc[c] = "Start"
    /\ \E p \in Providers, loc \in Locations \ {NoLocation}, date \in DateTexts :
        LET b == GetWeatherBegin(p, loc, date, config)
        IN /\ params' = [params EXCEPT ![c] = DirectCall(p, loc, date)]
           /\ pc' = [pc EXCEPT ![c] = b.pc]
           /\ provider' = [provider EXCEPT ![c] = p]
           /\ requested_date' = [requested_date EXCEPT ![c] = b.requested_date]
           /\ url' = [url EXCEPT ![c] = b.url]
           /\ steps' = [steps EXCEPT ![c] = b.steps]
           /\ result' = [result EXCEPT ![c] = b.result]
    /\ UNCHANGED <<config, response, reply, listed>>

\* self.provider of one forecaster shared by the calls: a call in flight reads
\* the provider another call installed.
SelfProvider_Shared(c) ==
    LET others == {d \in Calls : d # c /\ provider[d] # NoProvider}
    IN IF others = {} THEN provider[c] ELSE provider[CHOOSE d \in others : TRUE]

\* self.provider in get_weather: the forecaster is a local of the handler
\* (weather_service_impl.rs:51), so each call reads the provider it installed.
SelfProvider(c) == provider[c]

\* send().await completes with resp and the call runs to its end.
Complete(c, resp) ==
    LET r == GetWeatherResume(SelfProvider(c), requested_date[c], resp)
    IN /\ response' = [response EXCEPT ![c] = resp]
       /\ pc' = [pc EXCEPT ![c] = r.pc]
       /\ steps' = [steps EXCEPT ![c] = steps[c] \o r.steps]
       /\ result' = [result EXCEPT ![c] = r.result]
       /\ reply' = [reply EXCEPT ![c] =
                       IF params[c].entry = "rpc" THEN ToReply(r.result) ELSE reply[c]]
       /\ UNCHANGED <<config, params, provider, requested_date, url, listed>>

\* The transport fails: no response is obtained.
SendFails(c) ==
    /\ pc[c] = "RequestSent"
    /\ \E e \in TransportErrors : Complete(c, TransportError(e))

\* A response arrives carrying a day list in one of the providers' shapes.
ReceiveDays(c) ==
    /\ pc[c] = "RequestSent"
    /\ \E status \in Statuses, l \in DayLists(MaxDays), owm \in BOOLEAN :
        Complete(c, Reply(status, IF owm THEN OwmBody(l) ELSE WapiBody(l)))

\* A response arrives carrying any other body.
ReceiveOdd(c) ==
    /\ pc[c] = "RequestSent"
    /\ \E status \in Statuses, i \in 1..Len(OddBodies) :
        Complete(c, Reply(status, OddBodies[i]))

Next ==
    \/ Rpc_get_weather(1)
    \/ Forecaster_get_weather(1)
    \/ SendFails(1)
    \/ ReceiveDays(1)
    \/ ReceiveOdd(1)

Spec == Init /\ [][Next]_vars

----------------------------------------------------------------------------
(* Several requests in flight.  tonic runs each request as its own task;   *)
(* a task is suspended at send().await only, so the steps of a call before *)
(* and after it are atomic with respect to the other calls.                *)

ConcurrentRequests ==
    { RpcCall(name, loc, date) :
        name \in {"OpenWeatherMap", "WeatherApi", "openweathermap", "Weather"},
        loc \in {NoLocation, SomeLocation(22, 11)},
        date \in { <<"0", "1", ".", "0", "1", ".", "2", "0", "0", "0">>,
                   <<"2", "0", "0", "0", ".", "0", "1", ".", "0", "1">> } }

ConcurrentResponses ==
    << TransportError("operation timed out"),
       Reply(OK, OwmBody(<<Jan1>>)),
       Reply(OK, WapiBody(<<Jan2, Jan1>>)),
       Reply(OK, OddBodies[5]),              \* a day whose weather array is empty
       Reply(BAD_REQUEST, OddBodies[4]),     \* the upstream's own error object
       Reply(500, OddBodies[1]) >>           \* a body that cannot be read

GetForecastArrives(c) == \E prm \in ConcurrentRequests : Handle(c, prm)

\* The HTTP exchange of call c completes or fails, and the call runs to its end.
Resumes(c) ==
    /\ pc[c] = "RequestSent"
    /\ \E i \in 1..Len(ConcurrentResponses) : Complete(c, ConcurrentResponses[i])

\* A ListProviders request arrives and is answered; the handler never suspends.
Rpc_get_weather_providers ==
    /\ Len(listed) < MaxLists
    /\ listed' = Append(listed, get_weather_providers)
    /\ UNCHANGED <<config, params, pc, provider, requested_date, url, response,
                   steps, result, reply>>

NextConcurrent ==
    \/ \E c \in Calls : GetForecastArrives(c)
    \/ \E c \in Calls : Resumes(c)
    \/ Rpc_get_weather_providers

SpecConcurrent == Init /\ [][NextConcurrent]_vars

\* One call, entered either way, whose HTTP exchange ends: reqwest resolves
\* every send().await, with a response or with an error.
NextFair == Rpc_get_weather(1) \/ Forecaster_get_weather(1) \/ Resumes(1)

SpecFair == Init /\ [][NextFair]_vars /\ WF_vars(Resumes(1))

----------------------------------------------------------------------------
(* Vocabulary of the properties *)

Has(seq, x) == \E i \in 1..Len(seq) : seq[i] = x
Count(seq, x) == Cardinality({i \in 1..Len(seq) : seq[i] = x})
Min(S) == CHOOSE x \in S : \A y \in S : x <= y

\* The call has entered WeatherForecaster::get_weather.
InForecaster(c) == Has(steps[c], "parse_from_str")

\* The call has returned or aborted.
Terminal(c) == pc[c] \in {"Done", "Rejected", "Failed", "Panicked"}

\* The call obtained a response with the given status.
GotStatus(c, status) == response[c].kind = "reply" /\ response[c].status = status

\* The indices of the entries of S whose UTC calendar date is day number d.
Hits(S, d) == {i \in 1..Len(S) : ~S[i].dt.wide /\ S[i].dt.v \div 86400 = d}

CanonicalNames == {Display(SERVICES[i]) : i \in 1..Len(SERVICES)}

----------------------------------------------------------------------------
(* Properties *)

\* C1: whenever the date text parses, the reply has status 200 and parses to a
\* sequence S with at least one entry on the requested UTC date, the call
\* succeeds with the first such entry of S, unchanged.
C1_FirstMatchReturned ==
    \A c \in Calls :
        (InForecaster(c) /\ requested_date[c].ok /\ GotStatus(c, 200)) =>
            LET h == handle_response(provider[c], response[c].body)
                hits == Hits(h.forecasts, requested_date[c].date)
            IN (h.kind = "ok" /\ hits # {}) =>
                   result[c] = Ok(h.forecasts[Min(hits)])

\* C2: a call whose date text does not parse fails with InvalidArgument, and at
\* no point builds a URL or issues an HTTP request.
C2_BadDateNoNetwork ==
    \A c \in Calls :
        (InForecaster(c) /\ ~ParseFromStr(params[c].date).ok) =>
            /\ result[c].kind = "err"
            /\ result[c].error.code = InvalidArgument
            /\ ~Has(steps[c], "get_url")
            /\ ~Has(steps[c], "Url::parse")
            /\ ~Has(steps[c], "send")
            /\ url[c] = <<>>
            /\ response[c] = NoResponse

C2_Witness ==
    \E c \in Calls :
        /\ InForecaster(c)
        /\ params[c].date = <<"2", "0", "0", "0", ".", "0", "1", ".", "0", "1">>
        /\ pc[c] = "Rejected"

\* C3: when the reply has status 200 and parses but no entry is on the requested
\* UTC date, the call fails with InvalidArgument and the message of a date that
\* does not parse.
C3_NoMatchIsDateNotFound ==
    \A c \in Calls :
        (InForecaster(c) /\ requested_date[c].ok /\ GotStatus(c, 200)) =>
            LET h == handle_response(provider[c], response[c].body)
            IN (h.kind = "ok" /\ Hits(h.forecasts, requested_date[c].date) = {}) =>
                   /\ result[c].kind = "err"
                   /\ result[c].error.code = InvalidArgument
                   /\ result[c] = GetWeatherBegin(provider[c], params[c].location,
                                                  <<>>, config).result

\* C4: on status 400 the call fails with InvalidArgument whose message is the
\* response body, and handle_response is not invoked.
C4_BadRequestIsInvalidArgument ==
    \A c \in Calls :
        GotStatus(c, 400) =>
            /\ result[c] = Err(Error(InvalidArgument, response[c].body.text))
            /\ ~Has(steps[c], "handle_response")

\* C5: on any status other than 200 and 400 the call fails with Internal whose
\* message is the response body, never with InvalidArgument or a forecast.
C5_OtherStatusIsInternal ==
    \A c \in Calls :
        (response[c].kind = "reply" /\ response[c].status \notin {200, 400}) =>
            result[c] = Err(Error(Internal, response[c].body.text))

\* C6: when the GET fails in the transport the call fails with Internal, the
\* message includes the transport error text, handle_response is not invoked
\* and the call has issued one request only.
C6_TransportFailureIsInternal ==
    \A c \in Calls :
        response[c].kind = "error" =>
            /\ pc[c] = "Failed"
            /\ result[c].kind = "err"
            /\ result[c].error.code = Internal
            /\ Has(result[c].error.description, response[c].err)
            /\ ~Has(steps[c], "handle_response")
            /\ Count(steps[c], "send") = 1

C6_Witness ==
    \E c \in Calls :
        /\ response[c].kind = "error"
        /\ response[c].err = "error sending request: connection refused"
        /\ Terminal(c)

\* The body does not have the structure the provider's adapter expects.
StructuralMismatch(p, body) ==
    /\ body.read
    /\ \/ /\ p.kind = "openweathermap"
          /\ \/ ~IsOwmJSONReply(body.json)
             \/ \E i \in 1..Len(body.json.v.daily.v) :
                    body.json.v.daily.v[i].v.weather.v = <<>>
       \/ p.kind = "weatherapi" /\ ~IsWapiJSONReply(body.json)

\* C7: for both adapters, handle_response on a body with a structural mismatch
\* (for OpenWeatherMap also a day with an empty weather array) returns an error
\* of kind Internal: no other kind, no forecast list, no abort.
C7_MismatchIsInternal ==
    \A c \in Calls :
        (GotStatus(c, 200) /\ StructuralMismatch(provider[c], response[c].body)) =>
            LET h == handle_response(provider[c], response[c].body)
            IN /\ h.kind = "err"
               /\ h.error.code = Internal
               /\ result[c] = Err(h.error)

\* The reply of a request whose date was found unparseable or absent.
DateStatus == Status("Code::InvalidArgument", DisplayError(make_invalid_date_error))
UnknownProviderStatus ==
    Status("Code::InvalidArgument", <<"Invalid weather provider passed.">>)

\* C8 as claimed: a GetForecast request (with a location) whose date text does
\* not parse is answered with the date-format error whether or not the provider
\* name is known.
C8_DateBeforeProvider ==
    \A c \in Calls :
        (params[c].entry = "rpc" /\ Terminal(c) /\ params[c].location.some
            /\ ~ParseFromStr(params[c].date).ok) =>
            reply[c] = DateStatus

\* C8 amended: provider resolution precedes date parsing.  A request whose
\* provider name is unknown is answered with the unknown-provider error whether
\* or not its date text parses, and the date error is only ever returned by a
\* request whose provider was resolved before its date was parsed.
C8_ProviderBeforeDate ==
    \A c \in Calls :
        (params[c].entry = "rpc" /\ Terminal(c)) =>
            /\ params[c].provider \notin CanonicalNames => reply[c] = UnknownProviderStatus
            /\ reply[c] = DateStatus =>
                   /\ params[c].provider \in CanonicalNames
                   /\ provider[c] # NoProvider
                   /\ \E i, j \in 1..Len(steps[c]) :
                          i < j /\ steps[c][i] = "from_str" /\ steps[c][j] = "parse_from_str"

C8_Witness ==
    \E c \in Calls :
        /\ params[c].entry = "rpc"
        /\ params[c].provider = "Weather"
        /\ ~ParseFromStr(params[c].date).ok
        /\ reply[c] = UnknownProviderStatus

\* C9: a GetForecast request whose provider name is not one of the canonical
\* names fails with InvalidArgument and a message other than the date message,
\* and constructs no adapter, builds no URL and issues no HTTP request.
C9_UnknownProviderRejected ==
    \A c \in Calls :
        (params[c].entry = "rpc" /\ params[c].provider \notin CanonicalNames) =>
            /\ pc[c] = "Rejected"
            /\ reply[c].kind = "status"
            /\ reply[c].code = "Code::InvalidArgument"
            /\ reply[c].message # DateStatus.message
            /\ provider[c] = NoProvider
            /\ steps[c] = <<"from_str">>
            /\ url[c] = <<>>
            /\ response[c] = NoResponse

C9_Witness ==
    \E c \in Calls :
        /\ params[c].entry = "rpc"
        /\ params[c].provider = "openweathermap"
        /\ ParseFromStr(params[c].date).ok
        /\ params[c].location.some
        /\ pc[c] = "Rejected"

\* C10: when the date text parses but the provider's URL string is not a valid
\* URL, the call aborts with a panic, returns no error of either kind, and
\* issues no HTTP request.
C10_InvalidUrlPanics ==
    \A c \in Calls :
        (InForecaster(c) /\ ParseFromStr(params[c].date).ok
            /\ ~UrlParse(get_url(provider[c], params[c].location, config))) =>
            /\ pc[c] = "Panicked"
            /\ result[c] = Panic
            /\ ~Has(steps[c], "send")
            /\ response[c] = NoResponse

C10_Witness ==
    \E c \in Calls :
        /\ InForecaster(c)
        /\ requested_date[c].ok
        /\ url[c] = NotAnUrl
        /\ pc[c] = "Panicked"

\* The call built a URL that Url::parse refuses.
BuiltInvalidUrl(c) == Has(steps[c], "Url::parse") /\ ~UrlParse(url[c])

\* C11: every GetForecast call that did not build an invalid URL ends by
\* returning a forecast or a status of kind Internal or InvalidArgument with a
\* message; it never aborts without a typed result, also when the request has
\* no location, the body cannot be read or a condition array is empty.
C11_TypedResultUnlessInvalidUrl ==
    \A c \in Calls :
        (params[c].entry = "rpc" /\ Terminal(c) /\ ~BuiltInvalidUrl(c)) =>
            \/ reply[c].kind = "ok"
            \/ /\ reply[c].kind = "status"
               /\ reply[c].code \in {"Code::Internal", "Code::InvalidArgument"}
               /\ reply[c].message # <<>>

\* C12: a GetForecast call whose forecaster returned an error is answered with
\* a status of the same kind: InvalidArgument as Code::InvalidArgument, Internal
\* as Code::Internal, never as a success and never as the other kind.
C12_ErrorKindPreserved ==
    \A c \in Calls :
        (params[c].entry = "rpc" /\ result[c].kind = "err") =>
            /\ reply[c].kind = "status"
            /\ result[c].error.code = InvalidArgument =>
                   reply[c].code = "Code::InvalidArgument"
            /\ result[c].error.code = Internal => reply[c].code = "Code::Internal"
            /\ result[c].error.code \in {InvalidArgument, Internal}

C12_Witness ==
    \E c \in Calls :
        /\ params[c].entry = "rpc"
        /\ GotStatus(c, 400)
        /\ result[c].kind = "err"
        /\ result[c].error.code = InvalidArgument
        /\ reply[c].code = "Code::InvalidArgument"

\* C13: parsing the rendering of a variant gives the variant back (the names
\* ListProviders returned resolve, in a GetForecast request, to the service
\* they render), and every string that is not exactly "OpenWeatherMap" or
\* "WeatherApi", letter case included, fails to parse.
C13_RenderParseRoundTrip ==
    /\ \A k \in 1..Len(listed) : \A i \in 1..Len(listed[k]) :
           /\ from_str(listed[k][i]) = [ok |-> TRUE, service |-> SERVICES[i]]
           /\ \A c \in Calls :
                  (params[c].entry = "rpc" /\ params[c].provider = listed[k][i]) =>
                      provider[c] = get_forecast_integration(SERVICES[i])
    /\ \A c \in Calls :
           (params[c].entry = "rpc"
               /\ params[c].provider \notin {"OpenWeatherMap", "WeatherApi"}) =>
               /\ ~from_str(params[c].provider).ok
               /\ provider[c] = NoProvider
               /\ reply[c] = UnknownProviderStatus

C13_Witness ==
    /\ listed # <<>>
    /\ \E c, d \in Calls :
           /\ params[c].entry = "rpc"
           /\ params[c].provider = listed[1][2]
           /\ provider[c] = WeatherApiIntegration
           /\ params[d].entry = "rpc"
           /\ params[d].provider = "openweathermap"
           /\ provider[d] = NoProvider

\* C14: every ListProviders reply is the sequence "OpenWeatherMap",
\* "WeatherApi", whatever GetForecast calls have run or are in flight.
C14_ProvidersListIsFixed ==
    \A k \in 1..Len(listed) : listed[k] = <<"OpenWeatherMap", "WeatherApi">>

C14_Witness ==
    /\ Len(listed) >= 2
    /\ \E c, d \in Calls :
           /\ Terminal(c)
           /\ reply[c].kind = "ok"
           /\ pc[d] = "RequestSent"

\* s read as a date written dd.mm.yyyy, as the format "%d.%m.%Y" writes one:
\* whether it is one, and its fields.
DayFirst(s) ==
    LET none == [ok |-> FALSE, day |-> 0, month |-> 0, year |-> 0]
        dd == ScanUnsigned2(s) IN
    IF Len(s) # 10 \/ ~dd.ok \/ Len(dd.rest) # 8 THEN none ELSE
    LET l1 == ScanLiteral(dd.rest, <<".">>) IN
    IF ~l1.ok THEN none ELSE
    LET mo == ScanUnsigned2(l1.rest) IN
    IF ~mo.ok THEN none ELSE
    LET l2 == ScanLiteral(mo.rest, <<".">>) IN
    IF ~l2.ok THEN none ELSE
    LET yr == ScanYear(l2.rest) IN
    IF ~yr.ok \/ yr.rest # <<>> \/ ~ValidYmd(yr.v, mo.v, dd.v) THEN none
    ELSE [ok |-> TRUE, day |-> dd.v, month |-> mo.v, year |-> yr.v]

C16_TerminatesWithOneRequest ==
    /\ \A c \in Calls : (pc[c] # "Start") ~> Terminal(c)
    /\ [](\A c \in Calls :
             /\ Count(steps[c], "send") <= 1
             /\ (InForecaster(c) /\ ParseFromStr(params[c].date).ok
                    /\ UrlParse(get_url(provider[c], params[c].location, config))) =>
                    Count(steps[c], "send") = 1
             /\ pc[c] = "RequestSent" => Count(steps[c], "send") = 1)
    /\ [][\A c \in Calls :
             /\ pc'[c] = "RequestSent" => pc[c] \in {"Start", "RequestSent"}
             /\ Terminal(c) => pc'[c] = pc[c] /\ steps'[c] = steps[c]]_vars

C16_Witness ==
    \E c \in Calls :
        /\ InForecaster(c)
        /\ pc[c] = "Done"
        /\ response[c].kind = "reply"
        /\ Count(steps[c], "send") = 1

\* The reply of a GetForecast call that runs alone on request prm, credentials
\* cfg and upstream response resp.
AloneOutcome(prm, cfg, resp) ==
    LET b == RpcBegin(prm, cfg)
    IN IF b.pc # "RequestSent" THEN b.reply
       ELSE ToReply(GetWeatherResume(b.provider, b.requested_date, resp).result)

\* C17: in every interleaving of GetForecast calls (and ListProviders calls),
\* the outcome of each finished call is the outcome it has running alone on the
\* same request and the same upstream response, and the shared credentials are
\* never modified.
C17_CallsAreIndependent ==
    /\ [](\A c \in Calls :
             (params[c].entry = "rpc" /\ Terminal(c)) =>
                 reply[c] = AloneOutcome(params[c], config, response[c]))
    /\ [][config' = config]_vars

C17_Witness ==
    \E c, d \in Calls :
        /\ params[c].entry = "rpc"
        /\ params[d].entry = "rpc"
        /\ reply[c].kind = "ok"
        /\ provider[d] \notin {NoProvider, provider[c]}
        /\ pc[d] = "RequestSent"

====
